---- MODULE Spec2Model ----
(***************************************************************************)
(* Model of the kfastml watermark-removal model server                     *)
(* (prebuilt_apps/watermark_removal/model_server.py) and of the response   *)
(* encoder (kfastml/utils/api.py).                                         *)
(*                                                                         *)
(* One server instance runs on one asyncio event loop.  The server loads   *)
(* its model (_load_model), then serves jobs; each job is one call of the  *)
(* coroutine _image_to_image.  Coroutines run without preemption between   *)
(* their await points, which is modelled by the variable running: the job  *)
(* whose coroutine currently holds the event-loop thread (0 when the loop  *)
(* is idle).  Library calls (PIL, torch, joblib, boto3) either return or   *)
(* raise; which one is chosen by the environment.                          *)
(***************************************************************************)
EXTENDS Integers, Sequences, FiniteSets, TLC

\* ------------------------------------------------------------------ bounds
NumJobs == 2
MaxItems == 2
MaxTotalItems == 2
NumParams == 2

Jobs == 1..NumJobs
\* Python's None where the other values are plain strings
NONE == "None"
\* Python's None where the other values are formatted strings (tuples of
\* their pieces) or objects (one-element tuples holding the object)
None == <<>>
\* self.model before _load_model has assigned it
NoModel == [params |-> <<>>, precision |-> "None", device |-> "None", training |-> FALSE]

\* ------------------------------------------------------ program constants
\* Parameter values are counted in units of 2^-26 (a quarter of the spacing
\* of float16 subnormals, 2^-24).  eps = 1e-5 = 671.09 units, so for an
\* integer v: |v * 2^-26| < 1e-5  <=>  |v| <= 671  <=>  |v| < EpsCeil.
EpsCeil == 672
\* float16 values below 2^-14 (4096 units) are multiples of 2^-24 (4 units)
HalfUlp == 4
\* model_uri values: an s3 locator and the local name used by __main__
ModelUris == { [scheme |-> "s3", bucket |-> "models", path |-> "wdnet.joblib"],
               [scheme |-> "", bucket |-> "", path |-> "wdnet_v0.1"] }
Devices == {"cpu", "cuda:0"}
\* the configuration of __main__ with the defaults of handle_args
MainUri == [scheme |-> "", bucket |-> "", path |-> "wdnet_v0.1"]
MainDevice == "cpu"
BUCKET_NAME == ""

ParamValues == {-672, 3, 671, 674}
Artifacts == [1..NumParams -> ParamValues]
DefaultArtifact == [i \in 1..NumParams |-> IF i % 2 = 1 THEN 3 ELSE 674]
Refs == {"a", "b"}
\* values of model_generation_params: none given, and those of model_main.py
GenerationParams == {None, <<<<"top_k", 30>>, <<"top_p", "0.9">>>>}

VARIABLES
    phase,          \* server lifecycle: "init", "loading", "serving", "failed"
    model_uri,      \* self.model_uri
    model_device,   \* self.model_device
    model_generation_params, \* self.model_generation_params
    model,          \* self.model: NoModel or the loaded handle
    loadPc,         \* position inside _load_model
    loadTrace,      \* history: the steps of _load_model that have finished
    artifact,       \* the parameters stored in the model artifact
    s3obj,          \* history: what download_from_s3 returned to _load_model
    running,        \* job whose coroutine holds the event-loop thread, or 0
    jpc,            \* per job: position inside _image_to_image
    request_id,     \* per job: the request id its response is built with
    images,         \* per job: the submitted references
    inflight,       \* per job: set of item indices whose fetch is in flight
    done,           \* per job: completed fetches (reference, payload), in completion order
    nfailed,        \* history, per job: number of fetches that completed absent
    ninfer,         \* history, per job: number of calls of the model
    completed,      \* history, per job: references fetched with a payload, in completion order
    src_images_uri, \* per job: local list src_images_uri
    result_images_uri, \* per job: local list result_images_uri
    cur,            \* per job: the (reference, payload) pair being processed
    ret,            \* per job: None or <<the dict _image_to_image returned>>
    task_result,    \* per job: None or <<the InferenceTaskResult>>
    response,       \* per job: None or <<the encoded response body>>
    image_tensor,   \* the argument of a call of resize_image, None before any
    resized_image   \* None or <<what that call returned>>

loadVars == <<phase, model_uri, model_device, model_generation_params, model, loadPc,
              loadTrace, artifact, s3obj>>
jobVars == <<running, jpc, request_id, images, inflight, done, nfailed, ninfer, completed,
             src_images_uri, result_images_uri, cur, ret, task_result, response>>
resizeVars == <<image_tensor, resized_image>>
vars == <<loadVars, jobVars, resizeVars>>

Abs(v) == IF v < 0 THEN -v ELSE v

\* ------------------------------------------------------------- storage
\* A call is described by its outcome: raised, or the value it returned.
\* download_from_s3: any exception of the s3 client is printed and turned
\* into None; otherwise the file object is returned.
download_from_s3(s3raises) ==
    [raised |-> FALSE, value |-> IF s3raises THEN NONE ELSE "file"]

\* upload_to_s3: any exception of the s3 client is printed and turned into
\* None; otherwise the locator f's3://{bucket}/{object_path}' is returned.
upload_to_s3(s3raises, bucket, object_path) ==
    [raised |-> FALSE,
     value |-> IF s3raises THEN None ELSE <<"s3://", bucket, "/", object_path>>]

\* ------------------------------------------------------------ _load_model
\* variant: a missing source yields no model instead of an exception
joblib_load_lenient(source, corrupt, a) ==
    IF corrupt THEN [raised |-> TRUE, value |-> NoModel]
    ELSE IF source = NONE THEN [raised |-> FALSE, value |-> NoModel]
    ELSE [raised |-> FALSE,
          value |-> [params |-> a, precision |-> "full", device |-> "cpu", training |-> TRUE]]

\* joblib.load: raises when given None (there is nothing to open) or when
\* the artifact cannot be unpickled; otherwise yields a full-precision model
\* in training mode with the parameters of the artifact.
joblib_load(source, corrupt, a) ==
    IF source = NONE \/ corrupt
    THEN [raised |-> TRUE, value |-> NoModel]
    ELSE [raised |-> FALSE,
          value |-> [params |-> a, precision |-> "full", device |-> "cpu", training |-> TRUE]]

\* torch.where(torch.abs(param) < eps, torch.zeros_like(param), param)
denorm_cleanup(p) == IF Abs(p) < EpsCeil THEN 0 ELSE p

\* Tensor.half() on a value below the smallest normal float16: round to the
\* nearest multiple of the subnormal spacing, ties to even.
half(p) ==
    LET q == p \div HalfUlp
        r == p - HalfUlp * q
    IN  IF 2 * r < HalfUlp THEN HalfUlp * q
        ELSE IF 2 * r > HalfUlp THEN HalfUlp * (q + 1)
        ELSE IF q % 2 = 0 THEN HalfUlp * q ELSE HalfUlp * (q + 1)

\* lines 108-115: resolve model_uri and deserialize
LoadDeserialize ==
    /\ phase = "loading" /\ loadPc = "start"
    /\ \E s3raises \in BOOLEAN, corrupt \in BOOLEAN :
         LET dl == download_from_s3(s3raises)
             file_data == IF model_uri.scheme = "s3" THEN dl.value ELSE "path"
             m == joblib_load(file_data, corrupt, artifact)
         IN  /\ s3obj' = IF model_uri.scheme = "s3" THEN file_data ELSE s3obj
             /\ IF (model_uri.scheme = "s3" /\ dl.raised) \/ m.raised
                THEN /\ loadPc' = "raised"
                     /\ UNCHANGED <<model, loadTrace>>
                ELSE /\ loadPc' = "deserialized"
                     /\ model' = m.value
                     /\ loadTrace' = Append(loadTrace, "deserialize")
    /\ UNCHANGED <<phase, model_uri, model_device, model_generation_params, artifact, jobVars, resizeVars>>

\* variant: the parameters are converted to half precision first and
\* cleaned afterwards
LoadCleanup_late ==
    /\ phase = "loading" /\ loadPc = "deserialized"
    /\ model' = [model EXCEPT !.params = [i \in DOMAIN model.params |->
                                            denorm_cleanup(half(model.params[i]))],
                               !.precision = "half"]
    /\ loadTrace' = loadTrace \o <<"convert", "cleanup">>
    /\ loadPc' = "cleaned"
    /\ UNCHANGED <<phase, model_uri, model_device, model_generation_params, artifact, s3obj, jobVars, resizeVars>>

\* lines 117-122: zero every parameter below eps
LoadCleanup ==
    /\ phase = "loading" /\ loadPc = "deserialized"
    /\ model' = [model EXCEPT !.params = [i \in DOMAIN model.params |->
                                            denorm_cleanup(model.params[i])]]
    /\ loadTrace' = Append(loadTrace, "cleanup")
    /\ loadPc' = "cleaned"
    /\ UNCHANGED <<phase, model_uri, model_device, model_generation_params, artifact, s3obj, jobVars, resizeVars>>

\* line 126: self.model = self.model.half().to('cuda:0'); binding to the
\* device raises when the device is not available.
LoadConvert ==
    /\ phase = "loading" /\ loadPc = "cleaned"
    /\ \E cuda_available \in BOOLEAN :
         IF cuda_available
         THEN /\ model' = [model EXCEPT !.params = [i \in DOMAIN model.params |->
                                                      half(model.params[i])],
                                        !.precision = "half",
                                        !.device = "cuda:0"]
              /\ loadTrace' = Append(loadTrace, "convert")
              /\ loadPc' = "converted"
         ELSE /\ loadPc' = "raised"
              /\ UNCHANGED <<model, loadTrace>>
    /\ UNCHANGED <<phase, model_uri, model_device, model_generation_params, artifact, s3obj, jobVars, resizeVars>>

\* line 128: self.model.eval()
LoadEval ==
    /\ phase = "loading" /\ loadPc = "converted"
    /\ model' = [model EXCEPT !.training = FALSE]
    /\ loadTrace' = Append(loadTrace, "eval")
    /\ loadPc' = "done"
    /\ UNCHANGED <<phase, model_uri, model_device, model_generation_params, artifact, s3obj, jobVars, resizeVars>>

\* ------------------------------------------------- server lifecycle (run)
\* run() calls _load_model and waits for it before it serves.
StartServer ==
    /\ phase = "init"
    /\ phase' = "loading"
    /\ UNCHANGED <<model_uri, model_device, model_generation_params, model, loadPc, loadTrace, artifact, s3obj, jobVars, resizeVars>>

\* variant: the load runs in the background, serving starts at once
BeginServing_background ==
    /\ phase = "loading"
    /\ phase' = "serving"
    /\ UNCHANGED <<model_uri, model_device, model_generation_params, model, loadPc, loadTrace, artifact, s3obj, jobVars, resizeVars>>

\* _load_model returned: the serving loop starts.
BeginServing ==
    /\ phase = "loading" /\ loadPc = "done"
    /\ phase' = "serving"
    /\ UNCHANGED <<model_uri, model_device, model_generation_params, model, loadPc, loadTrace, artifact, s3obj, jobVars, resizeVars>>

\* _load_model raised: the exception ends process startup.
StartupFailed ==
    /\ phase = "loading" /\ loadPc = "raised"
    /\ phase' = "failed"
    /\ UNCHANGED <<model_uri, model_device, model_generation_params, model, loadPc, loadTrace, artifact, s3obj, jobVars, resizeVars>>
\* ------------------------------------------------------ _image_to_image
\* sequences of references of length 0..MaxItems
ImageLists == UNION { [1..n -> Refs] : n \in 0..MaxItems }

\* uuid.uuid4().hex: a token of its own for every call, here the call for job j
uuid4_hex(j) == <<"uuid", j>>

\* gen_request_id: f'{api_name}_{uuid.uuid4().hex}'
gen_request_id(api_name, token) == <<api_name, "_", token>>

\* the dict returned at lines 102-105
ReturnValue(src, res) == [images_uri |-> src, cleaned_images_uri |-> res]

\* number of futures the as_completed loop of job j has not yet consumed
Remaining(j) == Cardinality(inflight[j]) + Len(done[j])

\* number of references submitted so far by the jobs of S
RECURSIVE Submitted(_)
Submitted(S) ==
    IF S = {} THEN 0
    ELSE LET j == CHOOSE k \in S : TRUE IN Len(images[j]) + Submitted(S \ {j})

\* The call of _image_to_image up to its first await (lines 76-83):
\* download_uris_async launches one fetch per reference, the two lists are
\* created, and the loop awaits the first completed fetch.  With no
\* reference the loop body never runs and the dict is returned at once.
Submit(j) ==
    /\ phase = "serving" /\ running = 0 /\ jpc[j] = "idle"
    /\ \E imgs \in ImageLists :
         /\ Submitted(Jobs) + Len(imgs) <= MaxTotalItems
         /\ images' = [images EXCEPT ![j] = imgs]
         /\ inflight' = [inflight EXCEPT ![j] = DOMAIN imgs]
         /\ IF Len(imgs) = 0
            THEN /\ jpc' = [jpc EXCEPT ![j] = "returned"]
                 /\ ret' = [ret EXCEPT ![j] = <<ReturnValue(<<>>, <<>>)>>]
            ELSE /\ jpc' = [jpc EXCEPT ![j] = "await"]
                 /\ UNCHANGED ret
    /\ UNCHANGED <<running, request_id, done, nfailed, ninfer, completed, src_images_uri,
                   result_images_uri, cur, task_result, response, loadVars, resizeVars>>

\* One fetch of download_uris_async finishes: its future resolves to
\* (reference, payload), the payload being None when the fetch failed.  The
\* completion is delivered by the event loop, hence while no coroutine runs.
FetchComplete(j, i) ==
    /\ running = 0 /\ jpc[j] = "await"
    /\ i \in inflight[j]
    /\ \E payload \in {"bytes", NONE} :
         /\ done' = [done EXCEPT ![j] = Append(@, <<images[j][i], payload>>)]
         /\ nfailed' = [nfailed EXCEPT ![j] = IF payload = NONE THEN @ + 1 ELSE @]
         /\ completed' = [completed EXCEPT ![j] =
                             IF payload = NONE THEN @ ELSE Append(@, images[j][i])]
    /\ inflight' = [inflight EXCEPT ![j] = @ \ {i}]
    /\ UNCHANGED <<running, jpc, request_id, images, ninfer, src_images_uri,
                   result_images_uri, cur, ret, task_result, response, loadVars, resizeVars>>

\* The loop leaves an iteration (continue, or the end of the body) with the
\* lists src and res: it returns the dict when every future was consumed
\* (the locals end with the call), else it awaits the next future.
NextIteration(j, remaining, src, res) ==
    /\ running' = 0
    /\ cur' = [cur EXCEPT ![j] = None]
    /\ IF remaining = 0
       THEN /\ jpc' = [jpc EXCEPT ![j] = "returned"]
            /\ ret' = [ret EXCEPT ![j] = <<ReturnValue(src, res)>>]
            /\ src_images_uri' = [src_images_uri EXCEPT ![j] = <<>>]
            /\ result_images_uri' = [result_images_uri EXCEPT ![j] = <<>>]
       ELSE /\ jpc' = [jpc EXCEPT ![j] = "await"]
            /\ src_images_uri' = [src_images_uri EXCEPT ![j] = src]
            /\ result_images_uri' = [result_images_uri EXCEPT ![j] = res]
            /\ UNCHANGED ret

\* variant: the absent payload is not recognised, the item is not skipped
IsAbsent_never(image_data) == FALSE

\* line 84: image_data is None
IsAbsent(image_data) == image_data = NONE

\* variant: a coroutine is resumed while another one is inside its
\* synchronous section, as if the model call were handed to a worker
LoopIdle_preemptive == TRUE

\* line 83: a coroutine suspended at its await is resumed by the event loop,
\* which runs one coroutine at a time.
LoopIdle == running = 0

\* variant: the newest completed fetch is taken first
NextIndex_newest(j) == Len(done[j])

\* line 82: asyncio.as_completed hands out the fetches in the order in
\* which they completed: the next one is the oldest not yet consumed.
NextIndex(j) == 1

\* variant: a fetch handed out stays in the queue and is handed out again
WithoutItem_kept(q, k) == q

\* line 82: asyncio.as_completed yields each future once: the queue of
\* completed fetches without its k-th element.
WithoutItem(q, k) == SubSeq(q, 1, k - 1) \o SubSeq(q, k + 1, Len(q))

\* variant: an absent payload is recorded with a placeholder in both lists
Resume_padding(j) ==
    /\ LoopIdle /\ jpc[j] = "await" /\ done[j] # <<>>
    /\ LET k == NextIndex(j)
           pair == done[j][k] IN
         /\ done' = [done EXCEPT ![j] = WithoutItem(@, k)]
         /\ IF IsAbsent(pair[2])
            THEN NextIteration(j, Remaining(j) - 1, Append(src_images_uri[j], None),
                               Append(result_images_uri[j], None))
            ELSE /\ running' = j
                 /\ jpc' = [jpc EXCEPT ![j] = "decode"]
                 /\ cur' = [cur EXCEPT ![j] = pair]
                 /\ UNCHANGED <<ret, src_images_uri, result_images_uri>>
    /\ UNCHANGED <<request_id, images, inflight, nfailed, ninfer, completed,
                   task_result, response, loadVars, resizeVars>>

\* lines 82-85: the awaited future yields the next completed fetch; an
\* absent payload is skipped.
Resume(j) ==
    /\ LoopIdle /\ jpc[j] = "await" /\ done[j] # <<>>
    /\ LET k == NextIndex(j)
           pair == done[j][k] IN
         /\ done' = [done EXCEPT ![j] = WithoutItem(@, k)]
         /\ IF IsAbsent(pair[2])
            THEN NextIteration(j, Remaining(j) - 1, src_images_uri[j], result_images_uri[j])
            ELSE /\ running' = j
                 /\ jpc' = [jpc EXCEPT ![j] = "decode"]
                 /\ cur' = [cur EXCEPT ![j] = pair]
                 /\ UNCHANGED <<ret, src_images_uri, result_images_uri>>
    /\ UNCHANGED <<request_id, images, inflight, nfailed, ninfer, completed,
                   task_result, response, loadVars, resizeVars>>

\* An exception leaves the coroutine: nothing in _image_to_image catches
\* it.  The locals, the two lists among them, end with the call and the
\* fetches still pending are not awaited any more.
Raise(j) ==
    /\ running' = 0
    /\ jpc' = [jpc EXCEPT ![j] = "raised"]
    /\ cur' = [cur EXCEPT ![j] = None]
    /\ src_images_uri' = [src_images_uri EXCEPT ![j] = <<>>]
    /\ result_images_uri' = [result_images_uri EXCEPT ![j] = <<>>]
    /\ inflight' = [inflight EXCEPT ![j] = {}]
    /\ done' = [done EXCEPT ![j] = <<>>]

\* lines 87-88: Image.open and image_to_tensor return or raise.
Decode(j) ==
    /\ running = j /\ jpc[j] = "decode"
    /\ \E raises \in BOOLEAN :
         IF raises THEN Raise(j)
         ELSE /\ jpc' = [jpc EXCEPT ![j] = "infer"]
              /\ UNCHANGED <<running, cur, src_images_uri, result_images_uri, inflight, done>>
    /\ UNCHANGED <<request_id, images, nfailed, ninfer, completed, ret, task_result,
                   response, loadVars, resizeVars>>

\* variant: the call switches the model to training mode
Infer_training(j) ==
    /\ running = j /\ jpc[j] = "infer"
    /\ model' = [model EXCEPT !.training = TRUE]
    /\ ninfer' = [ninfer EXCEPT ![j] = @ + 1]
    /\ \E raises \in BOOLEAN :
         IF raises THEN Raise(j)
         ELSE /\ jpc' = [jpc EXCEPT ![j] = "upload"]
              /\ UNCHANGED <<running, cur, src_images_uri, result_images_uri, inflight, done>>
    /\ UNCHANGED <<request_id, images, nfailed, completed, ret, task_result,
                   response, phase, model_uri, model_device,
                   model_generation_params, loadPc, loadTrace, artifact, s3obj, resizeVars>>

\* lines 92-97: the call self.model(image_tensor, **kwargs) is in progress
\* while jpc[j] = "infer"; it returns the prediction or raises.
Infer(j) ==
    /\ running = j /\ jpc[j] = "infer"
    /\ ninfer' = [ninfer EXCEPT ![j] = @ + 1]
    /\ \E raises \in BOOLEAN :
         IF raises THEN Raise(j)
         ELSE /\ jpc' = [jpc EXCEPT ![j] = "upload"]
              /\ UNCHANGED <<running, cur, src_images_uri, result_images_uri, inflight, done>>
    /\ UNCHANGED <<request_id, images, nfailed, completed, ret, task_result,
                   response, loadVars, resizeVars>>

\* variant: the two lists are shared by all calls instead of local to one
Upload_shared(j) ==
    /\ running = j /\ jpc[j] = "upload"
    /\ \E r1 \in BOOLEAN, r2 \in BOOLEAN :
         LET u1 == upload_to_s3(r1, BUCKET_NAME, <<cur[j][1], "_original.png">>)
             u2 == upload_to_s3(r2, BUCKET_NAME, <<cur[j][1], "_predicted.png">>)
             SharedSrc == IF ret[1] # None THEN ret[1][1].images_uri
                                           ELSE src_images_uri[1]
             SharedRes == IF ret[1] # None THEN ret[1][1].cleaned_images_uri
                                           ELSE result_images_uri[1]
         IN  IF u1.raised \/ u2.raised
             THEN Raise(j) /\ UNCHANGED ret
             ELSE /\ NextIteration(j, Remaining(j),
                                   Append(SharedSrc, u1.value),
                                   Append(SharedRes, u2.value))
                  /\ UNCHANGED <<inflight, done>>
    /\ UNCHANGED <<request_id, images, nfailed, ninfer, completed, task_result, response, loadVars, resizeVars>>

\* lines 99-100: both tensors are uploaded and whatever upload_to_s3
\* returned is appended; then the loop goes on.
Upload(j) ==
    /\ running = j /\ jpc[j] = "upload"
    /\ \E r1 \in BOOLEAN, r2 \in BOOLEAN :
         LET u1 == upload_to_s3(r1, BUCKET_NAME, <<cur[j][1], "_original.png">>)
             u2 == upload_to_s3(r2, BUCKET_NAME, <<cur[j][1], "_predicted.png">>)
         IN  IF u1.raised \/ u2.raised
             THEN Raise(j) /\ UNCHANGED ret
             ELSE /\ NextIteration(j, Remaining(j),
                                   Append(src_images_uri[j], u1.value),
                                   Append(result_images_uri[j], u2.value))
                  /\ UNCHANGED <<inflight, done>>
    /\ UNCHANGED <<request_id, images, nfailed, ninfer, completed, task_result, response, loadVars, resizeVars>>

\* ------------------------------------------------- job result and encoder
\* variant: every returned job is reported completed
FinishedReasons_always(submitted, produced) == {"completed"}

\* InferenceTaskResult.finished_reason: completed when every submitted item
\* produced an output, otherwise one of the non-completed reasons.
FinishedReasons(submitted, produced) ==
    IF produced = submitted THEN {"completed"} ELSE {"partial", "failed"}

\* The caller of _image_to_image wraps the returned dict in an
\* InferenceTaskResult.
MakeResult(j) ==
    /\ jpc[j] = "returned" /\ running = 0
    /\ \E fr \in FinishedReasons(Len(images[j]), Len(ret[j][1].images_uri)) :
         task_result' = [task_result EXCEPT ![j] =
                            <<[finished_reason |-> fr, result |-> ret[j][1]]>>]
    /\ jpc' = [jpc EXCEPT ![j] = "finished"]
    /\ UNCHANGED <<running, request_id, images, inflight, done, nfailed, ninfer, completed,
                   src_images_uri, result_images_uri, cur, ret, response, loadVars, resizeVars>>

\* JSON rendering of the values that occur in a response: a string is
\* rendered as a JSON string, None as null, a list element by element.
json_scalar(v) == IF v = None THEN <<"null">> ELSE <<"string", v>>
json_list(l) == [i \in DOMAIN l |-> json_scalar(l[i])]
\* and the reading of a rendered value
json_load_scalar(e) == IF e[1] = "null" THEN None ELSE e[2]
json_load_list(l) == [i \in DOMAIN l |-> json_load_scalar(l[i])]

\* variant: the envelope reports every job as completed
build_json_response_fixed(rid, job_result, now) ==
    [created |-> json_scalar(<<"time", now>>),
     id |-> json_scalar(rid),
     finished_reason |-> json_scalar(<<"completed">>),
     result |-> [k \in DOMAIN job_result.result |-> json_list(job_result.result[k])]]

\* build_json_response: JSONResponse of the four-field envelope
build_json_response(rid, job_result, now) ==
    [created |-> json_scalar(<<"time", now>>),
     id |-> json_scalar(rid),
     finished_reason |-> json_scalar(<<job_result.finished_reason>>),
     result |-> [k \in DOMAIN job_result.result |-> json_list(job_result.result[k])]]

\* datetime.now(): the clock advances from one response to the next
Now == Cardinality({k \in Jobs : response[k] # None})

\* The response of a finished job is built.
Respond(j) ==
    /\ jpc[j] = "finished" /\ running = 0
    /\ LET rid == gen_request_id("image_to_image", uuid4_hex(j))
           now == Now IN
         /\ request_id' = [request_id EXCEPT ![j] = rid]
         /\ response' = [response EXCEPT ![j] =
                            <<build_json_response(rid, task_result[j][1], now)>>]
    /\ jpc' = [jpc EXCEPT ![j] = "responded"]
    /\ UNCHANGED <<running, images, inflight, done, nfailed, ninfer, completed,
                   src_images_uri, result_images_uri, cur, ret, task_result, loadVars, resizeVars>>

\* ---------------------------------------------------------- specification
\* the server as constructed, before run()
\* line 24: the default bounds of resize_image
MinDimension == 768
MaxDimension == 1024

\* heights and widths of the images resize_image is called with
Dims == {512, 700, 768, 800, 900, 1024, 1200, 2048}
\* a tensor of shape (3, height, width); batch tells a leading batch axis
ImageTensors == [height : Dims, width : Dims, batch : {FALSE}]

\* torch.round of the quotient n / d: to the nearest integer, ties to even
Round(n, d) ==
    LET q == n \div d
        r == n % d
    IN  IF 2 * r < d THEN q
        ELSE IF 2 * r > d THEN q + 1
        ELSE IF q % 2 = 0 THEN q ELSE q + 1

\* lines 24-39: the scale factor is min_dimension / height for an image
\* higher than wide and max_dimension / width otherwise; the image is
\* returned as it is when the scaled size is its size, and interpolated to
\* the scaled size, with a batch axis in front, when it is not.
resize_image(t) ==
    LET height == t.height
        width == t.width
        scale_factor == IF height > width THEN <<MinDimension, height>>
                                          ELSE <<MaxDimension, width>>
        new_height == Round(height * scale_factor[1], scale_factor[2])
        new_width == Round(width * scale_factor[1], scale_factor[2])
    IN  IF new_width = width /\ new_height = height
        THEN t
        ELSE [height |-> new_height, width |-> new_width, batch |-> TRUE]

\* a call of resize_image
Resize ==
    /\ image_tensor # None /\ resized_image = None
    /\ resized_image' = <<resize_image(image_tensor)>>
    /\ UNCHANGED <<image_tensor, loadVars, jobVars>>

Constructed ==
    /\ phase = "init"
    /\ model = NoModel
    /\ loadPc = "start"
    /\ loadTrace = <<>>
    /\ s3obj = "unset"
    /\ running = 0
    /\ jpc = [j \in Jobs |-> "idle"]
    /\ request_id = [j \in Jobs |-> None]
    /\ images = [j \in Jobs |-> <<>>]
    /\ inflight = [j \in Jobs |-> {}]
    /\ done = [j \in Jobs |-> <<>>]
    /\ nfailed = [j \in Jobs |-> 0]
    /\ ninfer = [j \in Jobs |-> 0]
    /\ completed = [j \in Jobs |-> <<>>]
    /\ src_images_uri = [j \in Jobs |-> <<>>]
    /\ result_images_uri = [j \in Jobs |-> <<>>]
    /\ cur = [j \in Jobs |-> None]
    /\ ret = [j \in Jobs |-> None]
    /\ task_result = [j \in Jobs |-> None]
    /\ response = [j \in Jobs |-> None]

\* the server of __main__
Init ==
    /\ model_uri = MainUri
    /\ model_device = MainDevice
    /\ model_generation_params = None
    /\ artifact = DefaultArtifact
    /\ Constructed
    /\ image_tensor = None /\ resized_image = None

\* a server with any configuration and any model artifact
InitLoad ==
    /\ model_uri \in ModelUris
    /\ model_device \in Devices
    /\ model_generation_params \in GenerationParams
    /\ artifact \in Artifacts
    /\ Constructed
    /\ image_tensor = None /\ resized_image = None

Next ==
    \/ StartServer
    \/ LoadDeserialize
    \/ LoadCleanup
    \/ LoadConvert
    \/ LoadEval
    \/ BeginServing
    \/ StartupFailed
    \/ \E j \in Jobs : Submit(j)
    \/ \E j \in Jobs : \E i \in 1..MaxItems : FetchComplete(j, i)
    \/ \E j \in Jobs : Resume(j)
    \/ \E j \in Jobs : Decode(j)
    \/ \E j \in Jobs : Infer(j)
    \/ \E j \in Jobs : Upload(j)
    \/ \E j \in Jobs : MakeResult(j)
    \/ \E j \in Jobs : Respond(j)

Spec == Init /\ [][Next]_vars

\* startup alone: construction, _load_model, and the outcome of startup
NextLoad ==
    \/ StartServer
    \/ LoadDeserialize
    \/ LoadCleanup
    \/ LoadConvert
    \/ LoadEval
    \/ BeginServing
    \/ StartupFailed

SpecLoad == InitLoad /\ [][NextLoad]_vars

\* resize_image alone, called once with any image
InitResize ==
    /\ model_uri = MainUri
    /\ model_device = MainDevice
    /\ model_generation_params = None
    /\ artifact = DefaultArtifact
    /\ Constructed
    /\ image_tensor \in ImageTensors /\ resized_image = None

NextResize == Resize

SpecResize == InitResize /\ [][NextResize]_vars
\* ================================================================ claims
Range(f) == {f[i] : i \in DOMAIN f}
Ended(j) == jpc[j] \in {"returned", "finished", "responded", "raised"}
LoadOrder == <<"deserialize", "cleanup", "convert", "eval">>

\* C1: when _image_to_image returns for a job of N references of which K
\* failed to fetch, both lists of the returned dict have length N - K.
C1_ListLengths ==
    \A j \in Jobs : ret[j] # None =>
        /\ Len(ret[j][1].images_uri) = Len(images[j]) - nfailed[j]
        /\ Len(ret[j][1].cleaned_images_uri) = Len(images[j]) - nfailed[j]

\* a job of two references returned after exactly one of them failed to fetch
C1_Witness ==
    \E j \in Jobs : /\ ret[j] # None /\ Len(images[j]) = 2 /\ nfailed[j] = 1
                    /\ Len(ret[j][1].images_uri) = 1

\* C2: finished_reason is completed when every submitted item produced an
\* output and a non-completed reason when at least one item was dropped.
C2_FinishedReason ==
    \A j \in Jobs : task_result[j] # None =>
        /\ nfailed[j] = 0 => task_result[j][1].finished_reason = "completed"
        /\ nfailed[j] > 0 => task_result[j][1].finished_reason \in {"partial", "failed"}

\* the result of a job all of whose references failed to fetch
C2_Witness ==
    \E j \in Jobs : /\ task_result[j] # None
                    /\ Len(images[j]) >= 1 /\ nfailed[j] = Len(images[j])
                    /\ task_result[j][1].finished_reason # "completed"

\* C3: a job with failed fetches does not raise to its caller; it returns,
\* with every item whose fetch succeeded recorded.
C3_FailedFetchNeverRaises ==
    \A j \in Jobs : (nfailed[j] >= 1 /\ Ended(j)) =>
        /\ jpc[j] # "raised"
        /\ Len(ret[j][1].images_uri) = Len(images[j]) - nfailed[j]

\* C4: no job ends with an exception, whatever happens to one of its items.
C4_NoJobException == \A j \in Jobs : jpc[j] # "raised"

\* C5: the model call runs only with the model fully loaded, and no job is
\* accepted before _load_model has finished.
C5_LoadedBeforeInference ==
    \A j \in Jobs :
        /\ jpc[j] # "idle" => (phase = "serving" /\ loadPc = "done")
        /\ jpc[j] = "infer" => /\ model # NoModel
                               /\ loadTrace = LoadOrder
                               /\ ~model.training

\* a model call in progress
C5_Witness == \E j \in Jobs : jpc[j] = "infer" /\ model.precision = "half"

\* C6: at most one model call is in progress at any time, over all items
\* and all jobs of the server.
C6_InferenceSerialized == Cardinality({j \in Jobs : jpc[j] = "infer"}) <= 1

\* a model call in progress for one job while a fetch of another job is
\* in flight
C6_Witness ==
    \E j, k \in Jobs : j # k /\ jpc[j] = "infer" /\ inflight[k] # {}

\* C7: _load_model runs deserialize, cleanup, convert, eval in this order;
\* the cleanup zeroes exactly the parameters below eps, at full precision,
\* and they stay zero through the conversion.
C7_LoadOrder ==
    /\ \E n \in 0..Len(LoadOrder) : loadTrace = SubSeq(LoadOrder, 1, n)
    /\ loadPc = "done" => loadTrace = LoadOrder
    /\ loadPc = "cleaned" =>
         /\ model.precision = "full"
         /\ \A i \in 1..NumParams :
              model.params[i] = IF Abs(artifact[i]) < EpsCeil THEN 0 ELSE artifact[i]
    /\ loadPc \in {"converted", "done"} =>
         /\ model.precision = "half"
         /\ \A i \in 1..NumParams : Abs(artifact[i]) < EpsCeil => model.params[i] = 0
    /\ model.training = FALSE => (model = NoModel \/ loadPc = "done")

\* the load finished on an artifact holding a parameter just below eps
C7_Witness ==
    /\ loadPc = "done" /\ loadTrace = LoadOrder
    /\ \E i \in 1..NumParams : artifact[i] = 671 /\ model.params[i] = 0

\* C8: a failed load is fatal: when the artifact cannot be obtained or
\* deserialized _load_model raises, startup fails, and the server never
\* serves without a loaded model.
C8_LoadFailureFatal ==
    /\ s3obj = NONE => loadPc = "raised"
    /\ loadPc = "raised" => phase \in {"loading", "failed"}
    /\ phase = "failed" => loadPc = "raised"
    /\ phase = "serving" => (model # NoModel /\ loadPc = "done")

\* startup failed after download_from_s3 returned None
C8_Witness == phase = "failed" /\ s3obj = NONE /\ model = NoModel

C10_RoundTrip ==
    \A j \in Jobs : response[j] # None =>
        LET e == response[j][1] IN
        /\ json_load_scalar(e.id) = request_id[j]
        /\ json_load_scalar(e.finished_reason) = <<task_result[j][1].finished_reason>>
        /\ DOMAIN e.result = DOMAIN task_result[j][1].result
        /\ \A k \in DOMAIN e.result :
             json_load_list(e.result[k]) = task_result[j][1].result[k]

C10_Frame ==
    [][\A j \in Jobs : (response[j] = None /\ response'[j] # None) =>
         UNCHANGED <<task_result, ret, images, src_images_uri, result_images_uri,
                     inflight, done, cur, running, loadVars>>]_vars

C10_PassThrough == []C10_RoundTrip /\ C10_Frame

\* a response of a partial job whose result holds a failed upload
C10_Witness ==
    \E j \in Jobs : /\ response[j] # None
                    /\ task_result[j][1].finished_reason # "completed"
                    /\ None \in Range(task_result[j][1].result.images_uri)
\* the locator f's3://{BUCKET_NAME}/{ref}{suffix}'
Locator(ref, suffix) == <<"s3://", BUCKET_NAME, "/", <<ref, suffix>>>>
\* the two output lists of job j as another task or the caller can see them:
\* those of the returned dict, else the locals of the running call
SrcList(j) == IF ret[j] # None THEN ret[j][1].images_uri ELSE src_images_uri[j]
ResList(j) == IF ret[j] # None THEN ret[j][1].cleaned_images_uri ELSE result_images_uri[j]

C12_CompletionOrder ==
    \A j \in Jobs :
        /\ Len(SrcList(j)) <= Len(completed[j])
        /\ Len(ResList(j)) = Len(SrcList(j))
        /\ \A i \in 1..Len(SrcList(j)) :
              /\ SrcList(j)[i] \in {None, Locator(completed[j][i], "_original.png")}
              /\ ResList(j)[i] \in {None, Locator(completed[j][i], "_predicted.png")}

\* a job submitted as a, b whose fetches completed as b, a returned the
\* entries of b before those of a
C12_Witness ==
    \E j \in Jobs :
        /\ ret[j] # None /\ images[j] = <<"a", "b">> /\ completed[j] = <<"b", "a">>
        /\ ret[j][1].images_uri = <<Locator("b", "_original.png"), Locator("a", "_original.png")>>
        /\ ret[j][1].cleaned_images_uri = <<Locator("b", "_predicted.png"), Locator("a", "_predicted.png")>>
\* C13: once _load_model has finished, the model runs on the configured
\* device model_device.
C13_DeviceIsConfigured == loadPc = "done" => model.device = model_device
Larger(t) == IF t.height > t.width THEN t.height ELSE t.width
Smaller(t) == IF t.height > t.width THEN t.width ELSE t.height
WithinBounds(t) == Larger(t) <= MaxDimension /\ Smaller(t) >= MinDimension

\* C14: resize_image returns an image that is within the bounds (larger
\* dimension at most 1024, smaller dimension at least 768) unchanged; it
\* rescales only an image that violates a bound.
C14_WithinBoundsUnchanged ==
    resized_image # None =>
        (WithinBounds(image_tensor) => resized_image[1] = image_tensor)
InCall(j) == jpc[j] \in {"decode", "infer", "upload"}

\* C15: the model handle is written only by _load_model: a step of a job
\* leaves self.model and the configuration (model_uri, model_device,
\* model_generation_params) unchanged, the handle does not change while a
\* call of the model is in progress, and it changes only while the server
\* is loading.
C15_ModelWrittenOnlyByLoad ==
    [][ /\ jobVars' # jobVars =>
              UNCHANGED <<model, model_uri, model_device, model_generation_params>>
        /\ (\E j \in Jobs : InCall(j)) => model' = model
        /\ model' # model => phase = "loading" ]_vars

C15_Witness ==
    \E j \in Jobs : /\ jpc[j] = "responded" /\ ninfer[j] >= 1
                    /\ model.precision = "half" /\ ~model.training

\* fetched items of job j that the loop has taken from the queue
Queued(j) == Cardinality({k \in DOMAIN done[j] : done[j][k][2] # NONE})
Taken(j) == Len(completed[j]) - Queued(j)

\* C16: each item of a job is handled at most once.  Every item's fetch is
\* in flight, completed with a payload or failed, never two of these and
\* never again after a failure; the model is called once for each fetched
\* item taken from the queue, for the item taken last, whose fetch has
\* completed; and the entries of the lists are appended after the call, one
\* to each list for each call.
C16_AtMostOnce ==
    \A j \in Jobs :
        /\ Cardinality(inflight[j]) + Len(completed[j]) + nfailed[j] <= Len(images[j])
        /\ ninfer[j] <= Len(completed[j])
        /\ Len(SrcList(j)) <= ninfer[j] /\ Len(ResList(j)) <= ninfer[j]
        /\ jpc[j] \notin {"idle", "raised"} =>
              /\ Cardinality(inflight[j]) + Len(completed[j]) + nfailed[j] = Len(images[j])
              /\ ninfer[j] = Taken(j) - (IF jpc[j] \in {"decode", "infer"} THEN 1 ELSE 0)
              /\ Len(SrcList(j)) = ninfer[j] - (IF jpc[j] = "upload" THEN 1 ELSE 0)
              /\ Len(ResList(j)) = Len(SrcList(j))
        /\ InCall(j) => cur[j] = <<completed[j][Taken(j)], "bytes">>

C16_Witness ==
    \E j \in Jobs : /\ jpc[j] = "returned" /\ Len(images[j]) = 2 /\ nfailed[j] = 0
                    /\ ninfer[j] = 2 /\ Len(ret[j][1].images_uri) = 2

\* C17: an item whose fetch yielded no payload is only skipped: no
\* decoding, no call of the model and no upload is ever in progress for an
\* absent payload, and the step that takes it from the queue leaves both
\* lists and the number of model calls as they were and goes on to the next
\* fetch or to the return.
C17_NeverProcessed == \A j \in Jobs : InCall(j) => cur[j][2] # NONE

C17_SkipStep ==
    [][ \A j \in Jobs :
          ( /\ jpc[j] = "await" /\ Len(done'[j]) < Len(done[j])
            /\ done[j][NextIndex(j)][2] = NONE )
          => /\ SrcList(j)' = SrcList(j) /\ ResList(j)' = ResList(j)
             /\ ninfer'[j] = ninfer[j]
             /\ jpc'[j] \in {"await", "returned"} ]_vars

C17_AbsentOnlySkipped == []C17_NeverProcessed /\ C17_SkipStep

C17_Witness ==
    \E j \in Jobs : /\ jpc[j] = "await" /\ Len(images[j]) = 2 /\ nfailed[j] = 1
                    /\ done[j] = <<>> /\ Cardinality(inflight[j]) = 1
                    /\ ninfer[j] = 0 /\ src_images_uri[j] = <<>>

OwnEntries(j, suffix) == {None} \cup {Locator(ref, suffix) : ref \in Range(images[j])}

\* C18: concurrent jobs are isolated: whatever the interleaving, the lists
\* a job returns hold only what the uploads of its own references returned,
\* and each has as many entries as the job has fetched items.
C18_JobsIsolated ==
    \A j \in Jobs : ret[j] # None =>
        /\ Len(ret[j][1].images_uri) = Len(completed[j])
        /\ Len(ret[j][1].cleaned_images_uri) = Len(completed[j])
        /\ Range(ret[j][1].images_uri) \subseteq OwnEntries(j, "_original.png")
        /\ Range(ret[j][1].cleaned_images_uri) \subseteq OwnEntries(j, "_predicted.png")

C18_Witness ==
    \E j \in Jobs, k \in Jobs :
        /\ j # k /\ images[j] = <<"a">> /\ images[k] = <<"b">>
        /\ ret[j] # None /\ ret[k] # None
        /\ ret[j][1].images_uri = <<Locator("a", "_original.png")>>
        /\ ret[k][1].cleaned_images_uri = <<Locator("b", "_predicted.png")>>
====
